---- MODULE Spec2Model ----
(***************************************************************************)
(* State-machine model of the drivechain client facade (src/src/lib.rs):   *)
(* Drivechain::get_two_way_peg_data with get_deposit_outputs and           *)
(* get_withdrawal_bundle_statuses, and Drivechain::verify_bmm.  The        *)
(* mainchain node behind the JSON-RPC client (src/src/client.rs) is the    *)
(* environment: every reply is a nondeterministic choice over a bounded    *)
(* set of values of the reply's type.                                      *)
(***************************************************************************)
EXTENDS Integers, Sequences, FiniteSets, TLC

VARIABLES
    sidechain_number,   \* Drivechain.sidechain_number
    pc,                 \* program point of the running facade call
    start,              \* argument start: Option<BlockHash>
    end,                \* argument end: BlockHash
    deposits,           \* get_deposit_outputs: Vec<Deposit> the node returned
    idx,                \* get_deposit_outputs: position of the for loop (1-based)
    last_total,         \* get_deposit_outputs: local last_total
    last_block_hash,    \* get_deposit_outputs: local last_block_hash
    outputs,            \* get_deposit_outputs: local outputs (HashMap)
    gdo_ret,            \* value get_deposit_outputs returned
    spent_seen,         \* reply of listspentwithdrawals in this call
    failed_seen,        \* reply of listfailedwithdrawals in this call
    result,             \* value the facade call returned
    statuses,           \* get_withdrawal_bundle_statuses: local statuses (HashMap)
    rpc_log,            \* requests sent to the node, in order
    prev_main_hash,     \* verify_bmm: argument prev_main_hash
    bmm_bytes,          \* verify_bmm: argument bmm_bytes
    main_hash,          \* verify_bmm: local main_hash
    getblock_replies,   \* verify_bmm: the node's replies to getblock, in order
    poll_interval,      \* verify_bmm: argument poll_interval
    verifybmm_replies,  \* verify_bmm: the node's answers to verifybmm
    sleeps,             \* verify_bmm: durations of the completed tokio::time::sleep calls
    calls,              \* concurrent calls: each call's position, arguments and replies
    locals,             \* concurrent calls: each call's running total, last hash and maps
    mainchain,          \* deposit records on the node's chain, oldest first
    passes              \* completed get_deposit_outputs passes of the caller

vars == <<sidechain_number, pc, start, end, deposits, idx, last_total,
          last_block_hash, outputs, gdo_ret, spent_seen, failed_seen, result,
          statuses, rpc_log, prev_main_hash, bmm_bytes, main_hash,
          getblock_replies, poll_interval, verifybmm_replies, sleeps,
          calls, locals, mainchain, passes>>

(***************************************************************************)
(* Bounds of the model.                                                    *)
(***************************************************************************)
MaxDeposits == 3      \* longest deposit list the node returns
MaxWithdrawals == 1   \* longest spent / failed list the node returns
MaxPolls == 3         \* most getblock replies without a successor
MaxExtension == 1     \* most records mined between two passes

(***************************************************************************)
(* Values.                                                                 *)
(***************************************************************************)
None == <<>>
Some(x) == <<x>>

Ok(v) == [ok |-> TRUE, v |-> v]
Err(e, from) == [ok |-> FALSE, err |-> e, from |-> from]
Panic == [ok |-> FALSE, err |-> "panic", from |-> "index out of bounds"]

EmptyMap == [k \in {} |-> None]
Insert(map, k, v) == [x \in DOMAIN map \cup {k} |-> IF x = k THEN v ELSE map[x]]

RECURSIVE SumOver(_, _)
SumOver(map, keys) ==
    IF keys = {} THEN 0
    ELSE LET k == CHOOSE x \in keys : TRUE
         IN map[k].value + SumOver(map, keys \ {k})

SeqsUpTo(S, n) == UNION {[1..k -> S] : k \in 0..n}

(***************************************************************************)
(* Values of the node's replies.                                           *)
(***************************************************************************)
BlockHashes == {"B1", "B2"}
EndHashes == {"B9"}
SidechainNumbers == {3}
OtherSidechains == {5}

\* Hex text is a sequence of characters; a character is its digit value
\* 0..15, or 16 for a character that is no hex digit.
HexA == <<0, 10>>
HexB == <<0, 11>>
HexC == <<0, 12>>
HexD == <<0, 11, 0, 1>>
HexE == <<0, 10, 0, 1>>
HexMalformed == <<0, 0>>
HexInvalid == <<0, 16>>

\* A transaction: its outputs, each with a value (u64), and its lock time.
\* The model's wire encoding of a transaction is a byte b in 10..12, for one
\* output holding the cumulative total b - 9, and an optional byte for the
\* lock time.
Transaction(bytes) ==
    [output |-> <<[value |-> bytes[1] - 9]>>,
     lock_time |-> IF Len(bytes) > 1 THEN bytes[2] ELSE 0]

RECURSIVE HexBytes(_)
HexBytes(txhex) ==
    IF Len(txhex) = 0 THEN <<>>
    ELSE <<16 * txhex[1] + txhex[2]>> \o HexBytes(SubSeq(txhex, 3, Len(txhex)))

\* hex::decode: OddLength or InvalidHexCharacter is an error.
HexDecode(txhex) ==
    IF Len(txhex) % 2 = 1 \/ \E k \in 1..Len(txhex) : txhex[k] > 15
    THEN Err("Hex", "hex::decode")
    ELSE Ok(HexBytes(txhex))

\* bitcoin::Transaction::consensus_decode on a Cursor over the bytes.
ConsensusDecode(bytes) ==
    IF Len(bytes) >= 1 /\ bytes[1] \in 10..12
    THEN Ok(Transaction(bytes))
    ELSE Err("BitcoinConsensusEncode", "consensus_decode")

\* Transaction::txid: a hash of the transaction, injective on the model's
\* transactions.
Txid(transaction) == <<"txid", transaction>>

Deposit(hashblock, nburnindex, txhex) ==
    [hashblock |-> hashblock, nburnindex |-> nburnindex, ntx |-> 0,
     strdest |-> "addr1", txhex |-> txhex]

\* Records whose transaction decodes and whose burn index is in range.
GoodDeposits(blocks, hexes) == {Deposit(b, 0, h) : b \in blocks, h \in hexes}
\* Records with invalid hex, malformed bytes, or a burn index out of range.
BadDeposits == {Deposit("B1", 0, HexInvalid), Deposit("B1", 0, HexMalformed),
                Deposit("B1", 1, HexA)}
Deposits ==
    GoodDeposits(BlockHashes, {HexA, HexB, HexC}) \cup {Deposit("B2", 0, HexE)}
        \cup BadDeposits

WithdrawalTxids == {"wX", "wY"}
SpentWithdrawals ==
    [nsidechain : SidechainNumbers \cup OtherSidechains, hash : WithdrawalTxids,
     hashblock : {"B1"}]
FailedWithdrawals ==
    [nsidechain : SidechainNumbers \cup OtherSidechains, hash : WithdrawalTxids]

(***************************************************************************)
(* Drivechain::get_deposit_outputs, the body of the for loop.              *)
(***************************************************************************)
InRange(transaction, nburnindex) == nburnindex < Len(transaction.output)
OutputValue(transaction, nburnindex) == transaction.output[nburnindex + 1].value

\* Faulty variants of the definitions below, which the properties reject:
\* the start record is skipped without seeding; a stale record leaves the
\* running total; a stale record becomes the last block hash; a credit is
\* the whole total; the running total of an earlier call is kept.
SeedTotalUnseeded(transaction, deposit) == 0
StaleTotalKept(total, lt) == lt
StaleBlockHashMoved(deposit, lbh) == Some(deposit.hashblock)
CreditValueWhole(total, lt) == total
LastTotalCarried == last_total

\* Faulty variant of IsStale: no record is stale.
IsStaleNever(total, lt) == FALSE
\* Faulty variant of IsStartBlock: the start bound is ignored.
IsStartBlockNever(st, deposit) == FALSE
\* `if let Some(start) = start { if deposit.hashblock == start` (lines 115-116).
IsStartBlock(st, deposit) == st # None /\ deposit.hashblock = st[1]
\* `last_total = transaction.output[deposit.nburnindex].value` (line 117).
SeedTotal(transaction, deposit) == OutputValue(transaction, deposit.nburnindex)
\* `if total < last_total` (line 122).
IsStale(total, lt) == total < lt
\* `last_total = total; continue` (lines 123-124): the new running total, and
\* last_block_hash, which the branch leaves alone.
StaleTotal(total, lt) == total
StaleBlockHash(deposit, lbh) == lbh
\* `let value = total - last_total` (line 126); total >= last_total here.
CreditValue(total, lt) == total - lt
\* Lines 127-130.
OutPoint(transaction, deposit) ==
    [txid |-> Txid(transaction), vout |-> deposit.nburnindex]
\* Lines 133-136.
Output(deposit, value) == [address |-> deposit.strdest, value |-> value]
\* `last_block_hash = Some(deposit.hashblock)` (line 132).
CreditBlockHash(deposit, lbh) == Some(deposit.hashblock)
\* `let mut last_total = 0` (line 109).
LastTotalInit == 0

Continue(lt, lbh, outs) ==
    [ctl |-> "continue", last_total |-> lt, last_block_hash |-> lbh, outputs |-> outs]
Return(ret, lt, lbh, outs) ==
    [ctl |-> "return", ret |-> ret, last_total |-> lt, last_block_hash |-> lbh,
     outputs |-> outs]
Unwind(lt, lbh, outs) ==
    [ctl |-> "panic", ret |-> Panic, last_total |-> lt, last_block_hash |-> lbh,
     outputs |-> outs]

\* One iteration, lines 112-137, on the record deposit with the locals
\* lt (last_total), lbh (last_block_hash) and outs (outputs).
LoopBody(deposit, st, lt, lbh, outs) ==
    LET bytes == HexDecode(deposit.txhex)
    IN IF ~bytes.ok THEN Return(bytes, lt, lbh, outs)
       ELSE LET decoded == ConsensusDecode(bytes.v)
            IN IF ~decoded.ok THEN Return(decoded, lt, lbh, outs)
               ELSE LET transaction == decoded.v
                    IN IF ~InRange(transaction, deposit.nburnindex)
                       THEN Unwind(lt, lbh, outs)
                       ELSE IF IsStartBlock(st, deposit)
                       THEN Continue(SeedTotal(transaction, deposit), lbh, outs)
                       ELSE LET total == OutputValue(transaction, deposit.nburnindex)
                            IN IF IsStale(total, lt)
                               THEN Continue(StaleTotal(total, lt),
                                             StaleBlockHash(deposit, lbh), outs)
                               ELSE Continue(total, CreditBlockHash(deposit, lbh),
                                        Insert(outs, OutPoint(transaction, deposit),
                                               Output(deposit, CreditValue(total, lt))))

\* The for loop from the locals lt, lbh, outs over the records deps, up to
\* the return of get_deposit_outputs (lines 111-139).
RECURSIVE RunLoop(_, _, _, _, _)
RunLoop(deps, st, lt, lbh, outs) ==
    IF deps = <<>> THEN Return(Ok(<<outs, lbh>>), lt, lbh, outs)
    ELSE LET body == LoopBody(Head(deps), st, lt, lbh, outs)
         IN IF body.ctl = "continue"
            THEN RunLoop(Tail(deps), st, body.last_total, body.last_block_hash,
                         body.outputs)
            ELSE body

\* get_deposit_outputs on the reply deps (lines 108-139).
GetDepositOutputs(deps, st) == RunLoop(deps, st, LastTotalInit, None, EmptyMap)

(***************************************************************************)
(* Drivechain::get_withdrawal_bundle_statuses, the two for loops.          *)
(***************************************************************************)
SpentStatus == "Confirmed"
FailedStatus == "Failed"

\* Faulty variants of the two loop bodies: every spent entry counts; failed
\* entries of other sidechains are dropped.
SpentCountsAll(spent, sidechain) == TRUE
FailedInsertFiltered(map, failed) ==
    IF failed.nsidechain \in SidechainNumbers
    THEN Insert(map, failed.hash, "Failed") ELSE map
\* `if spent.nsidechain == self.sidechain_number` (line 147).
SpentCounts(spent, sidechain) == spent.nsidechain = sidechain
\* `statuses.insert(failed.hash, WithdrawalBundleStatus::Failed)` (line 152).
FailedInsert(map, failed) == Insert(map, failed.hash, FailedStatus)

RECURSIVE InsertSpent(_, _, _)
InsertSpent(map, list, sidechain) ==
    IF list = <<>> THEN map
    ELSE InsertSpent(IF SpentCounts(Head(list), sidechain)
                     THEN Insert(map, Head(list).hash, SpentStatus)
                     ELSE map,
                     Tail(list), sidechain)

RECURSIVE InsertFailed(_, _)
InsertFailed(map, list) ==
    IF list = <<>> THEN map
    ELSE InsertFailed(FailedInsert(map, Head(list)), Tail(list))

(***************************************************************************)
(* The state machine.                                                      *)
(***************************************************************************)
frameVars == <<deposits, idx, last_total, last_block_hash, outputs>>
statusVars == <<spent_seen, failed_seen, statuses>>
bmmVars == <<prev_main_hash, bmm_bytes, main_hash, getblock_replies, poll_interval,
            verifybmm_replies, sleeps>>
callerVars == <<mainchain, passes>>

Request(method, params) == [method |-> method, params |-> params]
Transport(method) == Err("Jsonrpsee", method)

\* Calls that run concurrently on one Drivechain value (`&self`).
CallIds == {1, 2}
IdleCall ==
    [method |-> "none", pc |-> "idle", start |-> None, end |-> None,
     prev_main_hash |-> None, bmm_bytes |-> None, main_hash |-> None,
     deposits |-> <<>>, idx |-> 0, gdo_ret |-> None, replies |-> <<>>,
     result |-> None, overlapped |-> FALSE]
\* `let mut last_block_hash = None; let mut last_total = 0; let mut outputs =
\* HashMap::new();` (lines 108-110) and `let mut statuses = HashMap::new();`
\* (line 145).
FreshLocals ==
    [last_total |-> LastTotalInit, last_block_hash |-> None, outputs |-> EmptyMap,
     statuses |-> EmptyMap]

InitCommon ==
    /\ sidechain_number \in SidechainNumbers
    /\ pc = "idle"
    /\ start = None
    /\ end = None
    /\ deposits = <<>>
    /\ idx = 0
    /\ last_total = 0
    /\ last_block_hash = None
    /\ outputs = EmptyMap
    /\ gdo_ret = None
    /\ spent_seen = <<>>
    /\ failed_seen = <<>>
    /\ statuses = EmptyMap
    /\ result = None
    /\ rpc_log = <<>>
    /\ prev_main_hash = None
    /\ bmm_bytes = None
    /\ main_hash = None
    /\ getblock_replies = <<>>
    /\ poll_interval = None
    /\ verifybmm_replies = <<>>
    /\ sleeps = <<>>
    /\ passes = <<>>
    /\ calls = [c \in CallIds |-> IdleCall]
    /\ locals = [c \in CallIds |-> FreshLocals]

Init ==
    /\ InitCommon
    /\ mainchain = <<>>

\* get_deposit_outputs sends listsidechaindepositsbyblock (lines 104-107).
SendListDeposits(e, s) ==
    /\ start' = s
    /\ end' = e
    /\ rpc_log' = Append(rpc_log, Request("listsidechaindepositsbyblock",
                                          <<sidechain_number, Some(e), s>>))
    /\ pc' = "listsidechaindepositsbyblock"
    /\ UNCHANGED <<sidechain_number, calls, locals, frameVars, gdo_ret, statusVars, result,
                   bmmVars, callerVars>>

\* get_two_way_peg_data is called and calls get_deposit_outputs (line 70).
GetTwoWayPegData(e, s) ==
    /\ pc = "idle"
    /\ SendListDeposits(e, s)

\* The node answers listsidechaindepositsbyblock (lines 107-110).
ListDepositsReply(resp) ==
    /\ pc = "listsidechaindepositsbyblock"
    /\ IF resp.ok
       THEN /\ deposits' = resp.v
            /\ idx' = 1
            /\ last_block_hash' = None
            /\ last_total' = LastTotalInit
            /\ outputs' = EmptyMap
            /\ pc' = "for_deposit"
            /\ UNCHANGED gdo_ret
       ELSE /\ gdo_ret' = resp
            /\ pc' = "gdo_return"
            /\ UNCHANGED frameVars
    /\ UNCHANGED <<sidechain_number, calls, locals, start, end, statusVars, result, rpc_log,
                   bmmVars, callerVars>>

\* One iteration of the for loop, or its end (lines 111-139).
ForDeposit ==
    /\ pc = "for_deposit"
    /\ IF idx > Len(deposits)
       THEN /\ gdo_ret' = Ok(<<outputs, last_block_hash>>)
            /\ pc' = "gdo_return"
            /\ UNCHANGED frameVars
       ELSE LET body == LoopBody(deposits[idx], start, last_total,
                                 last_block_hash, outputs)
            IN /\ last_total' = body.last_total
               /\ last_block_hash' = body.last_block_hash
               /\ outputs' = body.outputs
               /\ idx' = IF body.ctl = "continue" THEN idx + 1 ELSE idx
               /\ gdo_ret' = IF body.ctl = "return" THEN body.ret ELSE gdo_ret
               /\ pc' = CASE body.ctl = "continue" -> "for_deposit"
                          [] body.ctl = "return" -> "gdo_return"
                          [] body.ctl = "panic" -> "panicked"
               /\ UNCHANGED deposits
    /\ UNCHANGED <<sidechain_number, calls, locals, start, end, statusVars, result, rpc_log,
                   bmmVars, callerVars>>

\* get_deposit_outputs has returned to get_two_way_peg_data (line 70); on
\* Ok get_withdrawal_bundle_statuses sends listspentwithdrawals (lines 71,
\* 145-146).  The locals of get_deposit_outputs are gone.
AfterDepositOutputs ==
    /\ pc = "gdo_return"
    /\ deposits' = <<>>
    /\ idx' = 0
    /\ last_total' = 0
    /\ last_block_hash' = None
    /\ outputs' = EmptyMap
    /\ IF gdo_ret.ok
       THEN /\ rpc_log' = Append(rpc_log, Request("listspentwithdrawals", <<>>))
            /\ pc' = "listspentwithdrawals"
            /\ UNCHANGED result
       ELSE /\ result' = gdo_ret
            /\ pc' = "done"
            /\ UNCHANGED rpc_log
    /\ UNCHANGED <<sidechain_number, calls, locals, start, end, gdo_ret, statusVars, bmmVars,
                   callerVars>>

\* The node answers listspentwithdrawals: the first loop runs and
\* listfailedwithdrawals is sent (lines 146-151).
ListSpentReply(resp) ==
    /\ pc = "listspentwithdrawals"
    /\ IF resp.ok
       THEN /\ spent_seen' = resp.v
            /\ statuses' = InsertSpent(EmptyMap, resp.v, sidechain_number)
            /\ rpc_log' = Append(rpc_log, Request("listfailedwithdrawals", <<>>))
            /\ pc' = "listfailedwithdrawals"
            /\ UNCHANGED result
       ELSE /\ result' = resp
            /\ pc' = "done"
            /\ UNCHANGED <<spent_seen, statuses, rpc_log>>
    /\ UNCHANGED <<sidechain_number, calls, locals, start, end, frameVars, gdo_ret, failed_seen,
                   bmmVars, callerVars>>

\* The node answers listfailedwithdrawals: the second loop runs and
\* get_two_way_peg_data returns (lines 151-154, 72-77).
ListFailedReply(resp) ==
    /\ pc = "listfailedwithdrawals"
    /\ IF resp.ok
       THEN /\ failed_seen' = resp.v
            /\ statuses' = InsertFailed(statuses, resp.v)
            /\ result' = Ok([deposits |-> gdo_ret.v[1],
                             deposit_block_hash |-> gdo_ret.v[2],
                             bundle_statuses |-> statuses'])
       ELSE /\ result' = resp
            /\ UNCHANGED <<failed_seen, statuses>>
    /\ pc' = "done"
    /\ UNCHANGED <<sidechain_number, calls, locals, start, end, frameVars, gdo_ret, spent_seen,
                   rpc_log, bmmVars, callerVars>>

DepositReplies ==
    {Transport("listsidechaindepositsbyblock")}
        \cup {Ok(d) : d \in SeqsUpTo(Deposits, MaxDeposits)}
SpentReplies ==
    {Transport("listspentwithdrawals")}
        \cup {Ok(l) : l \in SeqsUpTo(SpentWithdrawals, MaxWithdrawals)}
FailedReplies ==
    {Transport("listfailedwithdrawals")}
        \cup {Ok(l) : l \in SeqsUpTo(FailedWithdrawals, MaxWithdrawals)}
Starts == {None} \cup {Some(b) : b \in BlockHashes}

\* The node's answers: any value of the reply's type within the bounds.
NodeListsDeposits ==
    /\ pc = "listsidechaindepositsbyblock"
    /\ \E resp \in DepositReplies : ListDepositsReply(resp)
NodeListsSpent ==
    /\ pc = "listspentwithdrawals"
    /\ \E resp \in SpentReplies : ListSpentReply(resp)
NodeListsFailed ==
    /\ pc = "listfailedwithdrawals"
    /\ \E resp \in FailedReplies : ListFailedReply(resp)

Next ==
    \/ \E e \in EndHashes, s \in Starts : GetTwoWayPegData(e, s)
    \/ NodeListsDeposits
    \/ ForDeposit
    \/ AfterDepositOutputs
    \/ NodeListsSpent
    \/ NodeListsFailed

Spec == Init /\ [][Next]_vars

(***************************************************************************)
(* Drivechain::verify_bmm.                                                 *)
(***************************************************************************)
CriticalHashes == {"h1", "h2"}
\* Polling intervals, in milliseconds.
PollIntervals == {100, 1000}
Block(hash, nextblockhash) == [hash |-> hash, nextblockhash |-> nextblockhash]

\* `if let Some(next_block_hash) = ...nextblockhash` (lines 45-50).
HasSuccessor(block) == block.nextblockhash # None
\* Faulty variants of NoSuccessor: the loop polls again without sleeping;
\* the call returns Error::NoNextBlock; the call parks without a timer.
NoSuccessorBlocks(prev) == [pc |-> "blocked", result |-> None]
NoSuccessorBusyLoop(prev) == [pc |-> "getblock", result |-> None]
NoSuccessorIsError(prev) ==
    [pc |-> "done", result |-> Err("NoNextBlock", prev)]
\* A reply without a successor: the loop goes on to the sleep (line 53).
NoSuccessor(prev) == [pc |-> "sleep", result |-> None]

\* Faulty variants of the two `?`: a getblock fault is retried after a
\* sleep; the answer to verifybmm is ignored.
GetBlockFaultRetried(resp) == [pc |-> "sleep", result |-> None]
VerifyBmmResultIgnored(resp) == Ok(<<>>)
\* `.getblock(prev_main_hash, None).await?` (line 48): a fault returns.
GetBlockFault(resp) == [pc |-> "done", result |-> resp]
\* `.verifybmm(...).await?; Ok(())` (lines 55-58).
VerifyBmmResult(resp) == IF resp.ok THEN Ok(<<>>) ELSE resp

\* verify_bmm is called: the loop sends the first getblock (lines 44-48).
VerifyBmm(prev, bmm, interval) ==
    /\ pc = "idle"
    /\ prev_main_hash' = Some(prev)
    /\ bmm_bytes' = Some(bmm)
    /\ poll_interval' = Some(interval)
    /\ rpc_log' = Append(rpc_log, Request("getblock", <<prev, None>>))
    /\ pc' = "getblock"
    /\ UNCHANGED <<sidechain_number, calls, locals, start, end, frameVars, gdo_ret, statusVars,
                   result, main_hash, getblock_replies, verifybmm_replies, sleeps,
                   callerVars>>

\* The node answers getblock (lines 48-53, 55-56): a fault returns, a
\* successor ends the loop and verifybmm is sent, no successor sleeps.
GetBlockReply(resp) ==
    /\ pc = "getblock"
    /\ getblock_replies' = Append(getblock_replies, resp)
    /\ IF ~resp.ok
       THEN /\ result' = GetBlockFault(resp).result
            /\ pc' = GetBlockFault(resp).pc
            /\ UNCHANGED <<main_hash, rpc_log>>
       ELSE IF HasSuccessor(resp.v)
       THEN /\ main_hash' = resp.v.nextblockhash
            /\ rpc_log' = Append(rpc_log,
                   Request("verifybmm",
                           <<resp.v.nextblockhash[1], bmm_bytes[1], sidechain_number>>))
            /\ pc' = "verifybmm"
            /\ UNCHANGED result
       ELSE /\ pc' = NoSuccessor(prev_main_hash[1]).pc
            /\ result' = NoSuccessor(prev_main_hash[1]).result
            /\ UNCHANGED <<main_hash, rpc_log>>
    /\ UNCHANGED <<sidechain_number, calls, locals, start, end, frameVars, gdo_ret, statusVars,
                   prev_main_hash, bmm_bytes, poll_interval, verifybmm_replies, sleeps,
                   callerVars>>

\* tokio::time::sleep(poll_interval) is over: the loop sends getblock again
\* (lines 53, 44-48).
SleepDone ==
    /\ pc = "sleep"
    /\ sleeps' = Append(sleeps, poll_interval[1])
    /\ rpc_log' = Append(rpc_log, Request("getblock", <<prev_main_hash[1], None>>))
    /\ pc' = "getblock"
    /\ UNCHANGED <<sidechain_number, calls, locals, start, end, frameVars, gdo_ret, statusVars,
                   result, prev_main_hash, bmm_bytes, main_hash, getblock_replies,
                   poll_interval, verifybmm_replies, callerVars>>

\* The node answers verifybmm: verify_bmm returns (lines 55-58).
VerifyBmmReply(resp) ==
    /\ pc = "verifybmm"
    /\ verifybmm_replies' = Append(verifybmm_replies, resp)
    /\ result' = VerifyBmmResult(resp)
    /\ pc' = "done"
    /\ UNCHANGED <<sidechain_number, calls, locals, start, end, frameVars, gdo_ret, statusVars,
                   rpc_log, prev_main_hash, bmm_bytes, main_hash,
                   getblock_replies, poll_interval, sleeps, callerVars>>

NoSuccessorReplies ==
    Cardinality({k \in 1..Len(getblock_replies) :
                    getblock_replies[k].ok /\ ~HasSuccessor(getblock_replies[k].v)})

\* The node's answers to getblock: a fault, the block without a successor
\* (at most MaxPolls times), or the block with one.
NodeGetsBlock ==
    /\ pc = "getblock"
    /\ \E resp \in {Transport("getblock")}
                   \cup {Ok(Block(prev_main_hash[1], n)) :
                            n \in {None} \cup {Some(b) : b \in BlockHashes}} :
           /\ (resp.ok /\ ~HasSuccessor(resp.v)) => NoSuccessorReplies < MaxPolls
           /\ GetBlockReply(resp)
NodeVerifiesBmm ==
    /\ pc = "verifybmm"
    /\ \E resp \in {Transport("verifybmm"), Ok("null")} : VerifyBmmReply(resp)

NextBmm ==
    \/ \E prev \in BlockHashes, bmm \in CriticalHashes, interval \in PollIntervals :
           VerifyBmm(prev, bmm, interval)
    \/ NodeGetsBlock
    \/ SleepDone
    \/ NodeVerifiesBmm

SpecBmm == Init /\ [][NextBmm]_vars

\* The runtime fires the sleep's timer and the node answers every request.
SpecBmmFair ==
    /\ Init
    /\ [][NextBmm]_vars
    /\ WF_vars(NodeGetsBlock)
    /\ WF_vars(SleepDone)
    /\ WF_vars(NodeVerifiesBmm)

(***************************************************************************)
(* A caller that reconciles twice, and the node's chain.                   *)
(***************************************************************************)
NewBlockHashes == {"B3"}
Height(b) ==
    CASE b = "B1" -> 1 [] b = "B2" -> 2 [] b = "B3" -> 3 [] b = "B9" -> 9
ChainHexes == {HexA, HexB, HexC, HexD, HexE}

\* A chain's deposit records: in ascending block order, every transaction
\* decodable and on the chain once.
OnMainchain(chain) ==
    /\ \A p \in 1..Len(chain) : chain[p] \in GoodDeposits(BlockHashes \cup NewBlockHashes, ChainHexes)
    /\ \A p, q \in 1..Len(chain) :
           p < q => /\ Height(chain[p].hashblock) <= Height(chain[q].hashblock)
                    /\ chain[p].txhex # chain[q].txhex

\* The node's reply to listsidechaindepositsbyblock(_, Some(e), s): the
\* records of the blocks from s (when given) to e, oldest first.
FromBlock(chain, e, s) ==
    LET InBlocks(d) ==
            /\ Height(d.hashblock) <= Height(e)
            /\ s = None \/ Height(d.hashblock) >= Height(s[1])
    IN SelectSeq(chain, InBlocks)

InitRequery ==
    /\ InitCommon
    /\ mainchain \in {c \in SeqsUpTo(GoodDeposits(BlockHashes, ChainHexes), MaxDeposits) :
                         OnMainchain(c)}

\* The caller's first get_deposit_outputs (lines 93-107).
FirstPass(e, s) ==
    /\ pc = "idle"
    /\ passes = <<>>
    /\ SendListDeposits(e, s)

\* The caller's second get_deposit_outputs: with the start of the first
\* pass, or with the last block hash the first pass returned.
SecondPass(s) ==
    /\ pc = "idle"
    /\ Len(passes) = 1
    /\ \/ s = passes[1].start
       \/ passes[1].ret.ok /\ s = passes[1].ret.v[2]
    /\ SendListDeposits(passes[1].end, s)

\* The node answers from its chain.
NodeListsRange ==
    /\ pc = "listsidechaindepositsbyblock"
    /\ \E resp \in {Transport("listsidechaindepositsbyblock"),
                    Ok(FromBlock(mainchain, end, start))} : ListDepositsReply(resp)

\* get_deposit_outputs has returned to the caller (line 139, or the `?` of
\* lines 107, 112, 114); the caller keeps what it passed and got, with the
\* node's reply and chain of the time.
PassReturns ==
    /\ pc = "gdo_return"
    /\ passes' = Append(passes, [start |-> start, end |-> end,
                                 reply |-> IF gdo_ret = Transport("listsidechaindepositsbyblock")
                                           THEN gdo_ret ELSE Ok(deposits),
                                 mainchain |-> mainchain, ret |-> gdo_ret])
    /\ deposits' = <<>>
    /\ idx' = 0
    /\ pc' = "idle"
    /\ UNCHANGED <<sidechain_number, calls, locals, start, end, last_total, last_block_hash,
                   outputs, gdo_ret, statusVars, result, rpc_log, bmmVars, mainchain>>

\* A new block with a deposit is mined between the two passes.
Mine(d) ==
    /\ pc = "idle"
    /\ Len(passes) = 1
    /\ Len(mainchain) < Len(passes[1].mainchain) + MaxExtension
    /\ OnMainchain(Append(mainchain, d))
    /\ mainchain' = Append(mainchain, d)
    /\ UNCHANGED <<sidechain_number, calls, locals, pc, start, end, frameVars, gdo_ret, statusVars,
                   result, rpc_log, bmmVars, passes>>

NextRequery ==
    \/ \E e \in EndHashes, s \in Starts : FirstPass(e, s)
    \/ \E s \in Starts : SecondPass(s)
    \/ NodeListsRange
    \/ ForDeposit
    \/ PassReturns
    \/ \E d \in GoodDeposits(NewBlockHashes, ChainHexes) : Mine(d)

SpecRequery == InitRequery /\ [][NextRequery]_vars

(***************************************************************************)
(* Concurrent calls on one Drivechain value.                               *)
(***************************************************************************)
\* Faulty variant of Locals: every call's loop uses the locals of call 1.
LocalsShared(c) == 1
\* The locals a call's loops read and write are its own (lines 108-110,
\* 145): they live in the call's future, not in Drivechain.
Locals(c) == c

\* Another call is between its invocation and its return.
OtherRunning(c) ==
    \E o \in CallIds \ {c} : calls[o].pc \notin {"idle", "done", "panicked"}
\* The call c takes a step that changes its record by the fields in upd.
Advance(c, upd) ==
    calls' = [calls EXCEPT ![c] =
                 [f \in DOMAIN @ |->
                     IF f = "overlapped" THEN @[f] \/ OtherRunning(c)
                     ELSE IF f \in DOMAIN upd THEN upd[f] ELSE @[f]]]
Received(c, resp) == Append(calls[c].replies, resp)
otherVars ==
    <<pc, start, end, frameVars, gdo_ret, statusVars, result, rpc_log, bmmVars,
      callerVars>>

\* get_two_way_peg_data(end, start) is called (lines 65-70, 104-107).
InvokeTwoWayPegData(c, e, s) ==
    /\ calls[c].pc = "idle"
    /\ Advance(c, [method |-> "get_two_way_peg_data", start |-> s, end |-> e,
                   pc |-> "listsidechaindepositsbyblock"])
    /\ UNCHANGED <<sidechain_number, locals, otherVars>>

\* verify_bmm(prev_main_hash, bmm_bytes, _) is called (lines 38-48).
InvokeVerifyBmm(c, prev, bmm) ==
    /\ calls[c].pc = "idle"
    /\ Advance(c, [method |-> "verify_bmm", prev_main_hash |-> Some(prev),
                   bmm_bytes |-> Some(bmm), pc |-> "getblock"])
    /\ UNCHANGED <<sidechain_number, locals, otherVars>>

\* get_mainchain_tip() is called (lines 61-62).
InvokeGetMainchainTip(c) ==
    /\ calls[c].pc = "idle"
    /\ Advance(c, [method |-> "get_mainchain_tip", pc |-> "getbestblockhash"])
    /\ UNCHANGED <<sidechain_number, locals, otherVars>>

\* The node answers getbestblockhash: get_mainchain_tip returns (line 62).
TipAnswered(c, resp) ==
    /\ calls[c].pc = "getbestblockhash"
    /\ Advance(c, [replies |-> Received(c, resp), result |-> resp, pc |-> "done"])
    /\ UNCHANGED <<sidechain_number, locals, otherVars>>

\* The node answers listsidechaindepositsbyblock (lines 107-110).
DepositsAnswered(c, resp) ==
    /\ calls[c].pc = "listsidechaindepositsbyblock"
    /\ IF resp.ok
       THEN /\ Advance(c, [replies |-> Received(c, resp), deposits |-> resp.v,
                           idx |-> 1, pc |-> "for_deposit"])
            /\ locals' = [locals EXCEPT ![Locals(c)] =
                             [@ EXCEPT !.last_block_hash = None,
                                       !.last_total = LastTotalInit,
                                       !.outputs = EmptyMap]]
       ELSE /\ Advance(c, [replies |-> Received(c, resp), result |-> resp,
                           pc |-> "done"])
            /\ UNCHANGED locals
    /\ UNCHANGED <<sidechain_number, otherVars>>

\* One iteration of the for loop; at its end get_deposit_outputs returns and
\* get_withdrawal_bundle_statuses sends listspentwithdrawals (lines 111-139,
\* 70-71, 145-146).
DepositStep(c) ==
    /\ calls[c].pc = "for_deposit"
    /\ LET call == calls[c]
           mine == locals[Locals(c)]
       IN IF call.idx > Len(call.deposits)
          THEN /\ Advance(c, [gdo_ret |-> Ok(<<mine.outputs, mine.last_block_hash>>),
                              pc |-> "listspentwithdrawals"])
               /\ locals' = [locals EXCEPT ![Locals(c)].statuses = EmptyMap]
          ELSE LET body == LoopBody(call.deposits[call.idx], call.start,
                                    mine.last_total, mine.last_block_hash,
                                    mine.outputs)
               IN /\ locals' = [locals EXCEPT ![Locals(c)] =
                                   [@ EXCEPT !.last_total = body.last_total,
                                             !.last_block_hash = body.last_block_hash,
                                             !.outputs = body.outputs]]
                  /\ CASE body.ctl = "continue" ->
                              Advance(c, [idx |-> call.idx + 1])
                       [] body.ctl = "return" ->
                              Advance(c, [result |-> body.ret, pc |-> "done"])
                       [] body.ctl = "panic" ->
                              Advance(c, [pc |-> "panicked"])
    /\ UNCHANGED <<sidechain_number, otherVars>>

\* The node answers listspentwithdrawals (lines 146-151).
SpentAnswered(c, resp) ==
    /\ calls[c].pc = "listspentwithdrawals"
    /\ IF resp.ok
       THEN /\ Advance(c, [replies |-> Received(c, resp),
                           pc |-> "listfailedwithdrawals"])
            /\ locals' = [locals EXCEPT ![Locals(c)].statuses =
                             InsertSpent(@, resp.v, sidechain_number)]
       ELSE /\ Advance(c, [replies |-> Received(c, resp), result |-> resp,
                           pc |-> "done"])
            /\ UNCHANGED locals
    /\ UNCHANGED <<sidechain_number, otherVars>>

\* The node answers listfailedwithdrawals: get_two_way_peg_data returns
\* (lines 151-154, 72-77).
FailedAnswered(c, resp) ==
    /\ calls[c].pc = "listfailedwithdrawals"
    /\ IF resp.ok
       THEN LET statuses_ == InsertFailed(locals[Locals(c)].statuses, resp.v)
            IN /\ locals' = [locals EXCEPT ![Locals(c)].statuses = statuses_]
               /\ Advance(c, [replies |-> Received(c, resp), pc |-> "done",
                              result |-> Ok([deposits |-> calls[c].gdo_ret.v[1],
                                             deposit_block_hash |-> calls[c].gdo_ret.v[2],
                                             bundle_statuses |-> statuses_])])
       ELSE /\ Advance(c, [replies |-> Received(c, resp), result |-> resp,
                           pc |-> "done"])
            /\ UNCHANGED locals
    /\ UNCHANGED <<sidechain_number, otherVars>>

\* The node answers getblock (lines 44-57).
BlockAnswered(c, resp) ==
    /\ calls[c].pc = "getblock"
    /\ IF ~resp.ok
       THEN Advance(c, [replies |-> Received(c, resp),
                        result |-> GetBlockFault(resp).result,
                        pc |-> GetBlockFault(resp).pc])
       ELSE IF HasSuccessor(resp.v)
       THEN Advance(c, [replies |-> Received(c, resp),
                        main_hash |-> resp.v.nextblockhash, pc |-> "verifybmm"])
       ELSE Advance(c, [replies |-> Received(c, resp),
                        result |-> NoSuccessor(calls[c].prev_main_hash[1]).result,
                        pc |-> NoSuccessor(calls[c].prev_main_hash[1]).pc])
    /\ UNCHANGED <<sidechain_number, locals, otherVars>>

\* The sleep is over: the loop polls again (lines 53, 44-48).
SleepOver(c) ==
    /\ calls[c].pc = "sleep"
    /\ Advance(c, [pc |-> "getblock"])
    /\ UNCHANGED <<sidechain_number, locals, otherVars>>

\* The node answers verifybmm: verify_bmm returns (lines 55-58).
BmmAnswered(c, resp) ==
    /\ calls[c].pc = "verifybmm"
    /\ Advance(c, [replies |-> Received(c, resp), result |-> VerifyBmmResult(resp),
                   pc |-> "done"])
    /\ UNCHANGED <<sidechain_number, locals, otherVars>>

\* What the node answers to the concurrent calls.
SharedDepositReplies ==
    {Transport("listsidechaindepositsbyblock"),
     Ok(<<>>),
     Ok(<<Deposit("B1", 0, HexA), Deposit("B2", 0, HexB)>>),
     Ok(<<Deposit("B1", 0, HexB), Deposit("B2", 0, HexA), Deposit("B2", 0, HexC)>>),
     Ok(<<Deposit("B1", 0, HexC), Deposit("B1", 0, HexInvalid)>>),
     Ok(<<Deposit("B1", 0, HexA), Deposit("B1", 1, HexA)>>)}
SharedSpentReplies ==
    {Transport("listspentwithdrawals"),
     Ok(<<>>),
     Ok(<<[nsidechain |-> 3, hash |-> "wX", hashblock |-> "B1"]>>)}
SharedFailedReplies ==
    {Transport("listfailedwithdrawals"),
     Ok(<<>>),
     Ok(<<[nsidechain |-> 5, hash |-> "wY"]>>)}
SharedBlockReplies(c) ==
    {Transport("getblock"), Ok(Block(calls[c].prev_main_hash[1], Some("B2")))}
        \cup (IF Len(calls[c].replies) < MaxPolls
              THEN {Ok(Block(calls[c].prev_main_hash[1], None))} ELSE {})

NodeAnswers(c) ==
    \/ /\ calls[c].pc = "listsidechaindepositsbyblock"
       /\ \E resp \in SharedDepositReplies : DepositsAnswered(c, resp)
    \/ /\ calls[c].pc = "listspentwithdrawals"
       /\ \E resp \in SharedSpentReplies : SpentAnswered(c, resp)
    \/ /\ calls[c].pc = "listfailedwithdrawals"
       /\ \E resp \in SharedFailedReplies : FailedAnswered(c, resp)
    \/ /\ calls[c].pc = "getblock"
       /\ \E resp \in SharedBlockReplies(c) : BlockAnswered(c, resp)
    \/ /\ calls[c].pc = "verifybmm"
       /\ \E resp \in {Transport("verifybmm"), Ok("null")} : BmmAnswered(c, resp)
    \/ /\ calls[c].pc = "getbestblockhash"
       /\ \E resp \in {Transport("getbestblockhash"), Ok("B2")} : TipAnswered(c, resp)

NextReentrant ==
    \/ \E c \in CallIds, s \in Starts : InvokeTwoWayPegData(c, "B9", s)
    \/ \E c \in CallIds : InvokeVerifyBmm(c, "B1", "h1")
    \/ \E c \in CallIds : InvokeGetMainchainTip(c)
    \/ \E c \in CallIds : NodeAnswers(c)
    \/ \E c \in CallIds : DepositStep(c)
    \/ \E c \in CallIds : SleepOver(c)

SpecReentrant == Init /\ [][NextReentrant]_vars

(***************************************************************************)
(* What a record of the running call is, apart from the loop.              *)
(***************************************************************************)
Decoded(deposit) ==
    LET bytes == HexDecode(deposit.txhex)
    IN IF bytes.ok THEN ConsensusDecode(bytes.v) ELSE bytes
\* The record has a cumulative total: it decodes and its burn index is in range.
HasTotal(deposit) ==
    /\ Decoded(deposit).ok
    /\ InRange(Decoded(deposit).v, deposit.nburnindex)
TotalOf(deposit) == OutputValue(Decoded(deposit).v, deposit.nburnindex)
OutPointOf(deposit) == OutPoint(Decoded(deposit).v, deposit)

RemoveAt(seq, p) == SubSeq(seq, 1, p - 1) \o SubSeq(seq, p + 1, Len(seq))
MapSum(map) == SumOver(map, DOMAIN map)

\* The locals before and after the record at position p of the reply.
Before(p) == RunLoop(SubSeq(deposits, 1, p - 1), start, LastTotalInit, None, EmptyMap)
After(p) == RunLoop(SubSeq(deposits, 1, p), start, LastTotalInit, None, EmptyMap)

\* The record at p is reached, is not in the start block, and its total is
\* strictly below the running total at p.
StaleAt(p) ==
    /\ Before(p).ret.ok
    /\ HasTotal(deposits[p])
    /\ ~IsStartBlock(start, deposits[p])
    /\ TotalOf(deposits[p]) < Before(p).last_total

\* The record at p is reached, is not in the start block, and its total is
\* at least the running total at p: it emits a credit.
EmitsAt(p) ==
    /\ Before(p).ret.ok
    /\ HasTotal(deposits[p])
    /\ ~IsStartBlock(start, deposits[p])
    /\ TotalOf(deposits[p]) >= Before(p).last_total

Returned == pc = "gdo_return" /\ gdo_ret.ok

(***************************************************************************)
(* C1.  Stale-skip.                                                        *)
(***************************************************************************)
\* The record after p does not read the running total p left: there is
\* none, or it is in the start block, or it is below the total of p.
NextIgnoresTotalOf(p) ==
    \/ p = Len(deposits)
    \/ IsStartBlock(start, deposits[p + 1])
    \/ TotalOf(deposits[p + 1]) < TotalOf(deposits[p])

SeedPositions == IF start = None THEN {} ELSE {1}
SeedShape ==
    /\ SeedPositions \subseteq 1..Len(deposits)
    /\ \A p \in 1..Len(deposits) :
           IsStartBlock(start, deposits[p]) <=> p \in SeedPositions
T0 == IF start = None THEN 0 ELSE TotalOf(deposits[1])
Tn == IF Len(deposits) = 0 THEN 0 ELSE TotalOf(deposits[Len(deposits)])
\* T0 <= T1 <= ... <= Tn over the records after the seed.
NonDecreasing ==
    /\ \A p \in 1..Len(deposits) : HasTotal(deposits[p])
    /\ \A p \in (1..Len(deposits)) \ SeedPositions : T0 <= TotalOf(deposits[p])
    /\ \A p, q \in (1..Len(deposits)) \ SeedPositions :
           p < q => TotalOf(deposits[p]) <= TotalOf(deposits[q])
DistinctOutPoints ==
    \A p, q \in (1..Len(deposits)) \ SeedPositions :
        p < q => OutPointOf(deposits[p]) # OutPointOf(deposits[q])

\* C3 as stated: for non-decreasing totals T0 <= T1 <= ... <= Tn the values
\* in the returned deposits map sum to Tn - T0.
C3_MonotonicDiff ==
    (Returned /\ SeedShape /\ NonDecreasing) =>
        MapSum(gdo_ret.v[1]) = Tn - T0

\* On the replies whose records have pairwise distinct outpoints, where no
\* credit replaces another, the values in the returned deposits map do sum
\* to Tn - T0.
C3_MonotonicDiffDistinct ==
    (Returned /\ SeedShape /\ NonDecreasing /\ DistinctOutPoints) =>
        MapSum(gdo_ret.v[1]) = Tn - T0

\* A call with a start bound has returned two credits that sum to Tn - T0 > 0.
C3_Witness ==
    /\ Returned /\ SeedShape /\ NonDecreasing /\ DistinctOutPoints
    /\ start # None
    /\ Len(deposits) = 3
    /\ Cardinality(DOMAIN gdo_ret.v[1]) = 2
    /\ Tn - T0 = 2
(***************************************************************************)
(* C2.  Status tie-break.                                                  *)
(***************************************************************************)
Range(seq) == {seq[k] : k \in 1..Len(seq)}

\* C2 as stated: a transaction id that is in the spent list with the
\* facade's sidechain id and also in the failed list is Confirmed in the
\* returned status map.
C2_ConfirmedWinsTie ==
    (pc = "done" /\ result.ok) =>
        \A spent \in Range(spent_seen), failed \in Range(failed_seen) :
            (spent.nsidechain = sidechain_number /\ spent.hash = failed.hash) =>
                result.v.bundle_statuses[spent.hash] = "Confirmed"

(***************************************************************************)
(* C4.  Decode faults.                                                     *)
(***************************************************************************)
CodecErrors == {"Hex", "BitcoinConsensusEncode", "BitcoinHex", "Io"}

\* C4 as stated: when a record of the reply has invalid hex, malformed
\* transaction bytes or a burn index out of range, the call returns an error
\* of a codec kind, and get_two_way_peg_data returns that error and no
\* deposits map.
C4_DecodeFaultReturnsError ==
    /\ (/\ pc \in {"gdo_return", "panicked"}
        /\ \E p \in 1..Len(deposits) : ~HasTotal(deposits[p]))
           => (pc = "gdo_return" /\ ~gdo_ret.ok /\ gdo_ret.err \in CodecErrors)
    /\ (pc = "done" /\ ~gdo_ret.ok) => result = gdo_ret

(***************************************************************************)
(* C8.  Start-bound seeding.                                               *)
(***************************************************************************)
AtRecord == pc = "for_deposit" /\ idx <= Len(deposits)

\* C8: with a start hash, a record in the start block adds no credit and
\* does not change the last block hash, which is never the start hash; the
\* record sets the running total to its own total, and a next record with a
\* total T at least that is credited T minus the start record's total and
\* becomes the last block hash.
C8_StartSeeds ==
    [][/\ start' # None => last_block_hash' # start'
       /\ (AtRecord /\ IsStartBlock(start, deposits[idx])) =>
              /\ outputs' = outputs
              /\ last_block_hash' = last_block_hash
              /\ HasTotal(deposits[idx]) =>
                     (last_total' = TotalOf(deposits[idx]) /\ idx' = idx + 1)
       /\ (/\ AtRecord
           /\ idx > 1
           /\ IsStartBlock(start, deposits[idx - 1])
           /\ ~IsStartBlock(start, deposits[idx])
           /\ HasTotal(deposits[idx])
           /\ TotalOf(deposits[idx]) >= TotalOf(deposits[idx - 1])) =>
              /\ OutPointOf(deposits[idx]) \in DOMAIN outputs'
              /\ outputs'[OutPointOf(deposits[idx])].value =
                     TotalOf(deposits[idx]) - TotalOf(deposits[idx - 1])
              /\ last_block_hash' = Some(deposits[idx].hashblock)
      ]_vars

\* The example: records (B1, 1), (B2, 2) with start = B1 have returned
\* exactly one credit, of 1, and the last hash B2.
C8_Witness ==
    /\ Returned
    /\ start = Some("B1")
    /\ deposits = <<Deposit("B1", 0, HexA), Deposit("B2", 0, HexB)>>
    /\ DOMAIN gdo_ret.v[1] = {OutPointOf(Deposit("B2", 0, HexB))}
    /\ gdo_ret.v[1][OutPointOf(Deposit("B2", 0, HexB))].value = 1
    /\ gdo_ret.v[2] = Some("B2")

(***************************************************************************)
(* C9.  Last-hash consistency.                                             *)
(***************************************************************************)
Emitters == {p \in 1..Len(deposits) : EmitsAt(p)}
Max(S) == CHOOSE x \in S : \A y \in S : y <= x

\* C9: the returned block hash is None exactly when the returned deposits map
\* is empty, and otherwise it is the block hash of the last record that
\* emitted a credit.
C9_LastHashConsistent ==
    Returned =>
        /\ gdo_ret.v[2] = None <=> DOMAIN gdo_ret.v[1] = {}
        /\ gdo_ret.v[2] # None =>
               /\ Emitters # {}
               /\ gdo_ret.v[2] = Some(deposits[Max(Emitters)].hashblock)

\* A call has returned whose last crediting record is followed by a stale
\* record of another block.
C9_Witness ==
    /\ Returned
    /\ Emitters # {}
    /\ Max(Emitters) < Len(deposits)
    /\ deposits[Len(deposits)].hashblock # deposits[Max(Emitters)].hashblock
    /\ gdo_ret.v[2] = Some(deposits[Max(Emitters)].hashblock)

(***************************************************************************)
(* C5.  BMM poll count.                                                    *)
(***************************************************************************)
GetBlockCalls ==
    Cardinality({k \in 1..Len(rpc_log) : rpc_log[k].method = "getblock"})
VerifyBmmCalls ==
    Cardinality({k \in 1..Len(rpc_log) : rpc_log[k].method = "verifybmm"})
\* The loop has ended with a successor: the call waits for verifybmm or has
\* returned after it.
LeftWaiting == pc = "verifybmm" \/ (pc = "done" /\ main_hash # None)

\* C5: when the first k getblock replies have no successor and reply k + 1
\* has one, the call has sent exactly k + 1 getblock requests and slept
\* exactly k times, each for the polling interval, when it leaves the loop,
\* and sends no getblock later.
C5_PollCount ==
    LeftWaiting =>
        LET k == NoSuccessorReplies
        IN /\ Len(getblock_replies) = k + 1
           /\ \A j \in 1..k : getblock_replies[j].ok
                                 /\ ~HasSuccessor(getblock_replies[j].v)
           /\ getblock_replies[k + 1].ok /\ HasSuccessor(getblock_replies[k + 1].v)
           /\ GetBlockCalls = k + 1
           /\ Len(sleeps) = k
           /\ \A j \in 1..k : sleeps[j] = poll_interval[1]

\* The call has returned after two replies without a successor and a third
\* with one.
C5_Witness ==
    /\ pc = "done"
    /\ main_hash # None
    /\ NoSuccessorReplies = 2
    /\ GetBlockCalls = 3
    /\ sleeps = <<poll_interval[1], poll_interval[1]>>

(***************************************************************************)
(* C6.  No successor yet is never an error.                                *)
(***************************************************************************)
ReplyWithoutSuccessor ==
    /\ getblock_replies' # getblock_replies
    /\ LET resp == getblock_replies'[Len(getblock_replies')]
       IN resp.ok /\ ~HasSuccessor(resp.v)

\* A returned failure is the fault of the last getblock, or of verifybmm.
FailureOrigin ==
    (pc = "done" /\ ~result.ok) =>
        /\ result.err = "Jsonrpsee"
        /\ result.from \in {"getblock", "verifybmm"}
        /\ result.from = "getblock" =>
               (VerifyBmmCalls = 0 /\ result = getblock_replies[Len(getblock_replies)])
        /\ result.from = "verifybmm" => VerifyBmmCalls = 1

\* C6: a getblock reply without a successor never makes the call return: it
\* leads to the sleep, and the sleep to another getblock; a failure the call
\* returns is never NoNextBlock, and after replies without a successor and
\* then one with a successor it is the failure of verifybmm.
C6_NotYetIsNoError ==
    [][/\ ReplyWithoutSuccessor => (pc' = "sleep" /\ result' = None)
       /\ pc = "sleep" =>
              /\ pc' = "getblock"
              /\ result' = None
              /\ rpc_log' = Append(rpc_log, Request("getblock", <<prev_main_hash[1], None>>))
       /\ FailureOrigin'
       /\ (pc' = "done" /\ main_hash' # None /\ ~result'.ok) =>
              result'.from = "verifybmm"
      ]_vars

\* Two replies without a successor, then a successor whose verification
\* failed: the call returned the failure of verifybmm.
C6_Witness ==
    /\ pc = "done"
    /\ NoSuccessorReplies = 2
    /\ main_hash # None
    /\ result = Transport("verifybmm")

(***************************************************************************)
(* C7.  Idempotence.                                                       *)
(***************************************************************************)
TwoPasses == pc = "idle" /\ Len(passes) = 2

\* C7: two calls with the same (start, end) to which the node returned the
\* same records return the same deposits map and the same last block hash.
C7_Idempotent ==
    (/\ TwoPasses
     /\ passes[1].start = passes[2].start
     /\ passes[1].end = passes[2].end
     /\ passes[1].reply = passes[2].reply) =>
        passes[2].ret = passes[1].ret

\* Two calls with the same start bound and the same three records have
\* returned, the third record credited though its total is below the first's.
C7_Witness ==
    /\ TwoPasses
    /\ passes[1].start = passes[2].start
    /\ passes[1].start # None
    /\ passes[1].reply = passes[2].reply
    /\ passes[2].ret.ok
    /\ Len(passes[2].reply.v) = 3
    /\ passes[2].ret.v[2] = Some(passes[2].reply.v[3].hashblock)
    /\ TotalOf(passes[2].reply.v[3]) < TotalOf(passes[2].reply.v[1])

(***************************************************************************)
(* C10.  No double-crediting across calls.                                 *)
(***************************************************************************)
\* The first pass had no start bound and got the whole chain; the second had
\* the last block hash of the first as start and got the records of the
\* extended chain from that block on.
Continued ==
    /\ TwoPasses
    /\ passes[1].start = None
    /\ passes[1].reply = Ok(passes[1].mainchain)
    /\ passes[1].ret.ok
    /\ passes[2].start = passes[1].ret.v[2]
    /\ passes[2].reply = Ok(FromBlock(mainchain, passes[2].end, passes[2].start))
    /\ passes[2].ret.ok
    /\ SubSeq(mainchain, 1, Len(passes[1].mainchain)) = passes[1].mainchain

\* C10: after a pass with no start bound and a pass over the extended chain
\* from the last block hash of the first, no outpoint is credited in both
\* passes, and the values credited in the two passes sum to the values one
\* pass with no start bound credits on the extended chain.
C10_NoDoubleCredit ==
    Continued =>
        LET first == passes[1].ret.v[1]
            second == passes[2].ret.v[1]
            whole == GetDepositOutputs(mainchain, None).ret.v[1]
        IN /\ DOMAIN first \cap DOMAIN second = {}
           /\ MapSum(first) + MapSum(second) = MapSum(whole)

\* Both passes credited something, the first pass ended on a stale record,
\* and a record was mined between the passes.
C10_Witness ==
    /\ Continued
    /\ DOMAIN passes[1].ret.v[1] # {}
    /\ DOMAIN passes[2].ret.v[1] # {}
    /\ Len(mainchain) > Len(passes[1].mainchain)
    /\ Len(passes[2].reply.v) >= 3
    /\ passes[1].ret.v[2] # Some(passes[1].mainchain[Len(passes[1].mainchain)].hashblock)

(***************************************************************************)
(* C11.  Outpoint uniqueness within a pass.                                *)
(***************************************************************************)
\* C11 as stated: no two records that emit a credit have the same outpoint,
\* and the returned deposits map has as many entries as there are records
\* that emitted a credit.
C11_OutPointsUnique ==
    Returned =>
        /\ \A p, q \in Emitters : p # q => OutPointOf(deposits[p]) # OutPointOf(deposits[q])
        /\ Cardinality(DOMAIN gdo_ret.v[1]) = Cardinality(Emitters)

(***************************************************************************)
(* C16.  A total equal to the running total.                               *)
(***************************************************************************)
\* The record at p is reached, is not in the start block, and its total is
\* equal to the running total at p.
EqualAt(p) ==
    /\ Before(p).ret.ok
    /\ HasTotal(deposits[p])
    /\ ~IsStartBlock(start, deposits[p])
    /\ TotalOf(deposits[p]) = Before(p).last_total

\* C16 as stated: a record outside the start block whose total equals the
\* running total adds no entry to the deposits map and does not change the
\* last block hash.
C16_EqualTotalIsSkipped ==
    Returned =>
        \A p \in 1..Len(deposits) :
            EqualAt(p) =>
                /\ After(p).outputs = Before(p).outputs
                /\ After(p).last_block_hash = Before(p).last_block_hash

(***************************************************************************)
(* C17.  Credit values never underflow.                                    *)
(***************************************************************************)
\* The record at p is reached and the loop takes it to `total - last_total`
\* (line 126): it is not in the start block and the test of line 122 fails.
SubtractsAt(p) ==
    /\ Before(p).ret.ok
    /\ HasTotal(deposits[p])
    /\ ~IsStartBlock(start, deposits[p])
    /\ ~IsStale(TotalOf(deposits[p]), Before(p).last_total)

\* C17: whenever the subtraction is performed the running total is at most
\* the record's total, the credit's value is the record's total minus the
\* running total, and no value in the deposits map is negative.
C17_NoUnderflow ==
    /\ \A p \in 1..Len(deposits) :
           SubtractsAt(p) =>
               /\ Before(p).last_total <= TotalOf(deposits[p])
               /\ After(p).outputs[OutPointOf(deposits[p])].value =
                      TotalOf(deposits[p]) - Before(p).last_total
    /\ \A o \in DOMAIN outputs : outputs[o].value >= 0

\* A call with a start bound has returned after a seed, a stale record and a
\* record credited less than its total.
C17_Witness ==
    /\ Returned
    /\ start # None
    /\ Len(deposits) = 3
    /\ IsStartBlock(start, deposits[1])
    /\ \E p, q \in 1..Len(deposits) :
           /\ p < q
           /\ StaleAt(p)
           /\ SubtractsAt(q)
           /\ Before(q).last_total > 0
           /\ gdo_ret.v[1][OutPointOf(deposits[q])].value > 0
           /\ gdo_ret.v[1][OutPointOf(deposits[q])].value < TotalOf(deposits[q])

(***************************************************************************)
(* C12.  Spent-list filtering.                                             *)
(***************************************************************************)
\* C12: every transaction id that the returned status map holds as Confirmed
\* is in the spent list with the facade's sidechain id.
C12_ConfirmedIsOwnSpent ==
    (pc = "done" /\ result.ok) =>
        \A h \in DOMAIN result.v.bundle_statuses :
            result.v.bundle_statuses[h] = "Confirmed" =>
                \E spent \in Range(spent_seen) :
                    spent.hash = h /\ spent.nsidechain = sidechain_number

\* A call has returned a Confirmed entry.
C12_Witness ==
    /\ pc = "done" /\ result.ok
    /\ \E h \in DOMAIN result.v.bundle_statuses :
           result.v.bundle_statuses[h] = "Confirmed"

(***************************************************************************)
(* C20.  The failed list is applied unfiltered.                            *)
(***************************************************************************)
\* C20: the keys of the returned status map are the transaction ids of the
\* spent entries with the facade's sidechain id and of all failed entries.
C20_FailedUnfiltered ==
    (pc = "done" /\ result.ok) =>
        DOMAIN result.v.bundle_statuses =
            {spent.hash : spent \in {x \in Range(spent_seen) :
                                        x.nsidechain = sidechain_number}}
                \cup {failed.hash : failed \in Range(failed_seen)}

\* A call has returned a failed withdrawal of another sidechain in its map.
C20_Witness ==
    /\ pc = "done" /\ result.ok
    /\ \E failed \in Range(failed_seen) :
           /\ failed.nsidechain # sidechain_number
           /\ failed.hash \in DOMAIN result.v.bundle_statuses
           /\ result.v.bundle_statuses[failed.hash] = "Failed"

(***************************************************************************)
(* C13.  A transport fault ends verify_bmm.                                *)
(***************************************************************************)
\* The step receives a fault as the answer to getblock, or to verifybmm.
GetBlockFaulted ==
    /\ getblock_replies' # getblock_replies
    /\ ~getblock_replies'[Len(getblock_replies')].ok
VerifyBmmFaulted ==
    /\ verifybmm_replies' # verifybmm_replies
    /\ ~verifybmm_replies'[Len(verifybmm_replies')].ok

\* C13: a fault of getblock or of verifybmm makes the call return that
\* failure in the same step, with no request sent and no sleep; after a
\* failed getblock no verifybmm was ever sent, and a call that has returned
\* sends nothing and does not sleep.
C13_FaultIsTerminal ==
    [][/\ GetBlockFaulted =>
              /\ pc' = "done"
              /\ result' = getblock_replies'[Len(getblock_replies')]
              /\ rpc_log' = rpc_log
              /\ sleeps' = sleeps
              /\ VerifyBmmCalls' = 0
       /\ VerifyBmmFaulted =>
              /\ pc' = "done"
              /\ result' = verifybmm_replies'[Len(verifybmm_replies')]
              /\ rpc_log' = rpc_log
              /\ sleeps' = sleeps
       /\ pc = "done" => (pc' = "done" /\ rpc_log' = rpc_log /\ sleeps' = sleeps)
      ]_vars

\* The call has returned the fault of its second getblock.
C13_Witness ==
    /\ pc = "done"
    /\ result = Transport("getblock")
    /\ Len(getblock_replies) = 2
    /\ GetBlockCalls = 2
    /\ Len(sleeps) = 1
    /\ VerifyBmmCalls = 0

(***************************************************************************)
(* C14.  Ordering of the verification query.                               *)
(***************************************************************************)
\* C14: verifybmm is sent at most once, as the last request, after the last
\* getblock reply brought a successor, with that successor, the commitment
\* and the facade's sidechain id; the call returns Ok exactly when verifybmm
\* was answered without a fault.
C14_VerifyAfterSuccessor ==
    /\ VerifyBmmCalls <= 1
    /\ Len(verifybmm_replies) <= VerifyBmmCalls
    /\ VerifyBmmCalls = 1 =>
           LET last == getblock_replies[Len(getblock_replies)]
           IN /\ getblock_replies # <<>>
              /\ last.ok /\ HasSuccessor(last.v)
              /\ rpc_log[Len(rpc_log)] =
                     Request("verifybmm",
                             <<last.v.nextblockhash[1], bmm_bytes[1], sidechain_number>>)
    /\ (pc = "done" /\ prev_main_hash # None) =>
           (result.ok <=> (verifybmm_replies # <<>> /\ verifybmm_replies[1].ok))

\* The call has returned Ok after one reply without a successor and one
\* verifybmm.
C14_Witness ==
    /\ pc = "done"
    /\ result = Ok(<<>>)
    /\ NoSuccessorReplies = 1
    /\ VerifyBmmCalls = 1
    /\ verifybmm_replies = <<Ok("null")>>

(***************************************************************************)
(* C15.  Termination of verify_bmm.                                        *)
(***************************************************************************)
\* verify_bmm has been called and every getblock reply so far is a block
\* without a successor.
OnlyWithoutSuccessor ==
    /\ prev_main_hash # None
    /\ \A k \in 1..Len(getblock_replies) :
           getblock_replies[k].ok /\ ~HasSuccessor(getblock_replies[k].v)

\* C15: when the node answers every request and some getblock reply is a
\* fault or has a successor, the call returns; as long as every reply is
\* without a successor the call is still polling or sleeping, however many
\* replies there were.
C15_Termination ==
    /\ (prev_main_hash # None) ~> (pc = "done")
    /\ [](OnlyWithoutSuccessor => pc \in {"getblock", "sleep"})

\* The call is polling again after as many replies without a successor as
\* the node gives.
C15_Witness ==
    /\ pc = "getblock"
    /\ OnlyWithoutSuccessor
    /\ NoSuccessorReplies = 3
    /\ GetBlockCalls = 4

(***************************************************************************)
(* C18.  Order of the queries of get_two_way_peg_data, and abort.          *)
(***************************************************************************)
PegOrder ==
    <<"listsidechaindepositsbyblock", "listspentwithdrawals", "listfailedwithdrawals">>
\* The number of requests a call that failed at `from` has sent.
SentUpTo(from) ==
    CASE from = "listspentwithdrawals" -> 2
      [] from = "listfailedwithdrawals" -> 3
      [] OTHER -> 1
\* A query of the running call failed (a call that returned without Ok), or
\* a record of the reply has a decode fault that the loop reached.
QueryOrDecodeFailure ==
    \/ pc = "done" /\ ~result.ok
    \/ pc = "gdo_return" /\ ~gdo_ret.ok
    \/ pc = "panicked"

\* C18 as stated: the queries are sent in the order list-deposits,
\* list-spent, list-failed, each at most once; the first query or decode
\* failure ends the call with an error, after which no query is sent and no
\* TwoWayPegData is returned.
C18_OrderAndAbort ==
    [][/\ Len(rpc_log') <= 3
       /\ \A k \in 1..Len(rpc_log') : rpc_log'[k].method = PegOrder[k]
       /\ QueryOrDecodeFailure' =>
              /\ pc' \in {"gdo_return", "done"}
              /\ pc' = "gdo_return" =>
                     (Len(rpc_log') = 1 /\ result' = None /\ ~gdo_ret'.ok)
              /\ pc' = "done" =>
                     (~result'.ok /\ Len(rpc_log') = SentUpTo(result'.from))
       /\ QueryOrDecodeFailure => rpc_log' = rpc_log
       /\ (pc' = "done" /\ result'.ok) => Len(rpc_log') = 3
      ]_vars

(***************************************************************************)
(* C19.  Reentrancy.                                                       *)
(***************************************************************************)
\* What get_two_way_peg_data returns when it runs alone with the start bound
\* st and receives the replies: a panic in the loop returns nothing.
AloneTwoWayPegData(st, replies) ==
    IF ~replies[1].ok THEN replies[1]
    ELSE LET gdo == GetDepositOutputs(replies[1].v, st).ret
         IN IF ~gdo.ok THEN gdo
            ELSE IF ~replies[2].ok THEN replies[2]
            ELSE IF ~replies[3].ok THEN replies[3]
            ELSE Ok([deposits |-> gdo.v[1],
                     deposit_block_hash |-> gdo.v[2],
                     bundle_statuses |->
                         InsertFailed(InsertSpent(EmptyMap, replies[2].v,
                                                  sidechain_number),
                                      replies[3].v)])
\* What verify_bmm and get_mainchain_tip return alone on the replies.
AloneVerifyBmm(replies) ==
    LET last == replies[Len(replies)]
    IN IF last.ok THEN Ok(<<>>) ELSE last
Alone(call) ==
    CASE call.method = "get_two_way_peg_data" ->
             AloneTwoWayPegData(call.start, call.replies)
      [] call.method = "verify_bmm" -> AloneVerifyBmm(call.replies)
      [] call.method = "get_mainchain_tip" -> call.replies[1]

\* C19: in every interleaving of concurrent calls the facade's sidechain id
\* never changes, a call that returns returns what it returns alone on the
\* replies it received, and a call that panics panics alone on them too.
C19_Reentrant ==
    /\ [][sidechain_number' = sidechain_number]_vars
    /\ [](\A c \in CallIds :
              /\ calls[c].pc = "done" => calls[c].result = Alone(calls[c])
              /\ calls[c].pc = "panicked" => Alone(calls[c]) = Panic)

\* Two get_two_way_peg_data calls whose steps interleaved have returned
\* different deposits maps, each the one it returns alone.
C19_Witness ==
    /\ \A c \in CallIds :
           /\ calls[c].method = "get_two_way_peg_data"
           /\ calls[c].pc = "done"
           /\ calls[c].overlapped
           /\ calls[c].result.ok
           /\ calls[c].result = Alone(calls[c])
           /\ DOMAIN calls[c].result.v.deposits # {}
    /\ calls[1].result.v.deposits # calls[2].result.v.deposits

====
